---- MODULE Spec2Model ----
(***************************************************************************)
(* Model of the LlamaStackDistribution reconciler                          *)
(* (controllers/llamastackdistribution_controller.go).                     *)
(*                                                                         *)
(* The store holds one LlamaStackDistribution (spec and status) and its    *)
(* four owned children under their deterministic names.  One pass of       *)
(* Reconcile is two steps, each atomic: fetch + reconcileResources, then   *)
(* updateStatus + return.  Between the two steps other actors may change   *)
(* the children (the Deployment controller, the volume binder, a delete),  *)
(* which is how the status step can find the Deployment missing.  When     *)
(* reconcileResources fails, updateStatus reads no child, so the two steps *)
(* are taken as one.                                                       *)
(*                                                                         *)
(* Three specifications share the state and the pass's functions:          *)
(*   Spec      the pass in two steps among the other actors;               *)
(*   SpecSync  whole passes that record what reconcileResources did, among *)
(*             changes of the storage section and restarts of the operator *)
(*             with another feature flag;                                  *)
(*   SpecRace  several passes for the one resource, their store calls      *)
(*             interleaved, on a store of named objects.                   *)
(***************************************************************************)
EXTENDS Integers, Sequences, FiniteSets, TLC

\* ------------------------------------------------------------------ bounds

\* Largest replica count a spec asks for.
MaxReplicas == 2

\* Passes that run at once for one resource in SpecRace.
MaxPasses == 2

\* Largest resourceVersion at which a pass of SpecRace still starts.
MaxVersion == 3

\* ---------------------------------------------------------------- constants

\* ctrl.Result{RequeueAfter: 10 * time.Second}, in seconds.
RequeueDelay == 10

PhasePending == "Pending"
PhaseInitializing == "Initializing"
PhaseReady == "Ready"
PhaseFailed == "Failed"

\* metav1.ConditionStatus values; "Unset" is a condition not in the list yet.
CondTrue == "True"
CondFalse == "False"
CondUnset == "Unset"

\* Names the cluster's distribution->image map knows (ClusterInfo.DistributionImages).
DistributionImages == {"starter"}

\* Distribution references a spec may carry: a name the map knows, and a
\* name it does not know.
Distributions ==
    { [name |-> "starter", image |-> ""],
      [name |-> "bogus", image |-> ""] }

\* Spec.Server.Storage.Size: nil (NoSize), or a quantity.
NoSize == ""
StorageSizes == {NoSize, "20Gi"}

\* llamav1alpha1.DefaultStorageSize: the quantity used when Size is nil,
\* different from every size a spec gives here.
DefaultStorageSize == "10Gi"

\* corev1.ReadWriteOnce
ReadWriteOnce == "ReadWriteOnce"

\* storage: Spec.Server.Storage is set; size: its Size, read only then.
Specs ==
    [ replicas : 0..MaxReplicas,
      storage : BOOLEAN,
      size : StorageSizes,
      ports : BOOLEAN,
      distribution : Distributions ]

\* The specs a resource is created with here: the storage size left unset.
InitSpecs == {s \in Specs : s.size = NoSize}

\* What GET /v1/providers can yield: a transport/parse/status error, or a list.
NoProviders == << >>
SomeProviders == << "inference" >>

\* The status of a freshly created resource.
EmptyStatus ==
    [ phase |-> "",
      deploymentReady |-> CondUnset,
      healthReady |-> CondUnset,
      storageReady |-> CondUnset,
      serviceReady |-> CondUnset,
      availableReplicas |-> 0,
      providers |-> NoProviders ]

NoDeployment == [exists |-> FALSE, replicas |-> 0, readyReplicas |-> 0]

\* No PersistentVolumeClaim of the name <name>-pvc.
NoPVC == [phase |-> "absent", size |-> NoSize, accessMode |-> ""]

VARIABLES
    crExists,            \* the LlamaStackDistribution is in the store
    spec,                \* its Spec
    status,              \* its Status, as persisted
    pvc,                 \* <name>-pvc: [phase, size, accessMode]
    networkPolicy,       \* <name>-network-policy exists
    deployment,          \* <name>: [exists, replicas, readyReplicas]
    service,             \* <name>-service exists
    EnableNetworkPolicy, \* the reconciler's feature flag, set at construction
    pc,                  \* "idle", or "status": reconcileResources returned nil
    last,                \* what the pass that has just returned did
    objects,             \* SpecRace: the children in the store, by kind and name
    passes,              \* SpecRace: where each of the passes stands
    resourceVersion,     \* SpecRace: the resource's metadata.resourceVersion
    endpoint             \* SpecLive: what GET /v1/health does at the moment

vars == << crExists, spec, status, pvc, networkPolicy, deployment, service,
           EnableNetworkPolicy, pc, last, objects, passes, resourceVersion,
           endpoint >>

\* ------------------------------------------------ Resource Synchronizer

\* instance.HasPorts()
HasPorts(sp) == sp.ports

\* validateDistribution: exactly one of name and image is given.
validateDistribution(sp) ==
    (sp.distribution.name # "") # (sp.distribution.image # "")

\* resolveImage: an explicit image passes through; a name must be in the map.
resolveImage(d) ==
    IF d.image # "" THEN [image |-> d.image, err |-> FALSE]
    ELSE IF d.name \in DistributionImages
         THEN [image |-> d.name, err |-> FALSE]
         ELSE [image |-> "", err |-> TRUE]

\* The PersistentVolumeClaim reconcilePVC builds: the requested size, or
\* DefaultStorageSize when the spec gives none; ReadWriteOnce; not bound yet.
desiredPVC(sp) ==
    [ phase |-> "Pending",
      size |-> IF sp.size = NoSize THEN DefaultStorageSize ELSE sp.size,
      accessMode |-> ReadWriteOnce ]

\* r.Create(ctx, pvc): the API server refuses a name that is taken
\* (AlreadyExists), and the error is what reconcilePVC returns.
createPVC(sp, p) ==
    IF p.phase # "absent"
    THEN [pvc |-> p, err |-> TRUE, op |-> "create"]
    ELSE [pvc |-> desiredPVC(sp), err |-> FALSE, op |-> "create"]

\* reconcilePVC creating without the Get.
reconcilePVC_NoGet(sp, p, apiErr) ==
    IF apiErr THEN [pvc |-> p, err |-> TRUE, op |-> "none"]
    ELSE createPVC(sp, p)

\* reconcilePVC bringing an existing claim to the requested size.
reconcilePVC_UpdateSize(sp, p, apiErr) ==
    IF apiErr THEN [pvc |-> p, err |-> TRUE, op |-> "none"]
    ELSE IF p.phase = "absent" THEN createPVC(sp, p)
    ELSE IF p.size # desiredPVC(sp).size
         THEN [pvc |-> [p EXCEPT !.size = desiredPVC(sp).size],
               err |-> FALSE, op |-> "update"]
         ELSE [pvc |-> p, err |-> FALSE, op |-> "none"]

\* reconcilePVC: Get by name; create on not-found; an existing claim is left
\* alone.  apiErr: the Get (or the Create) returns an API error.  op: the
\* write issued on the claim.
reconcilePVC(sp, p, apiErr) ==
    IF apiErr THEN [pvc |-> p, err |-> TRUE, op |-> "none"]
    ELSE IF p.phase = "absent" THEN createPVC(sp, p)
    ELSE [pvc |-> p, err |-> FALSE, op |-> "none"]

\* deploy.HandleDisabledNetworkPolicy: delete the policy if it exists,
\* not-found is success; any other API error is returned.
HandleDisabledNetworkPolicy(np, apiErr) ==
    IF apiErr THEN [networkPolicy |-> np, err |-> TRUE, op |-> "none"]
    ELSE [networkPolicy |-> FALSE, err |-> FALSE,
          op |-> IF np THEN "delete" ELSE "none"]

\* deploy.ApplyNetworkPolicy: create if absent, update if changed.  The
\* policy built depends on the instance's name and port only, which no
\* action changes, so an existing policy is never found changed.
ApplyNetworkPolicy(np, apiErr) ==
    IF apiErr THEN [networkPolicy |-> np, err |-> TRUE, op |-> "none"]
    ELSE [networkPolicy |-> TRUE, err |-> FALSE,
          op |-> IF np THEN "none" ELSE "create"]

\* reconcileNetworkPolicy applying the policy whatever the flag.
reconcileNetworkPolicy_IgnoreFlag(flag, np, apiErr) ==
    ApplyNetworkPolicy(np, apiErr)

\* reconcileNetworkPolicy: gated by the feature flag.
reconcileNetworkPolicy(flag, np, apiErr) ==
    IF ~flag THEN HandleDisabledNetworkPolicy(np, apiErr)
    ELSE ApplyNetworkPolicy(np, apiErr)

\* deploy.ApplyDeployment: create if absent (no replica ready yet), else
\* update the spec if it changed; the Deployment's status is not touched.
ApplyDeployment(sp, dep, apiErr) ==
    IF apiErr THEN [deployment |-> dep, err |-> TRUE, op |-> "none"]
    ELSE IF ~dep.exists
         THEN [deployment |->
                   [exists |-> TRUE, replicas |-> sp.replicas, readyReplicas |-> 0],
               err |-> FALSE, op |-> "create"]
         ELSE [deployment |-> [dep EXCEPT !.replicas = sp.replicas],
               err |-> FALSE,
               op |-> IF dep.replicas # sp.replicas THEN "update" ELSE "none"]

\* reconcileDeployment: validate, resolve the image, build, apply.
reconcileDeployment(sp, dep, apiErr) ==
    IF ~validateDistribution(sp)
    THEN [deployment |-> dep, err |-> TRUE, op |-> "none"]
    ELSE IF resolveImage(sp.distribution).err
         THEN [deployment |-> dep, err |-> TRUE, op |-> "none"]
         ELSE ApplyDeployment(sp, dep, apiErr)

\* deploy.ApplyService: create if absent, update if changed.  The Service
\* built depends on the instance's name and port only, which no action
\* changes, so an existing Service is never found changed.
ApplyService(svc, apiErr) ==
    IF apiErr THEN [service |-> svc, err |-> TRUE, op |-> "none"]
    ELSE [service |-> TRUE, err |-> FALSE,
          op |-> IF svc THEN "none" ELSE "create"]

\* reconcileService
reconcileService(sp, svc, apiErr) == ApplyService(svc, apiErr)

\* The steps a pass's API fault can hit; "none": every call succeeds.
Faults == {"none", "pvc", "np", "dep", "svc"}

\* The writes a run of reconcileResources issued, per child.
NoOps == [pvc |-> "none", networkPolicy |-> "none",
          deployment |-> "none", service |-> "none"]

\* reconcileResources keeping the first error and running every step.
reconcileResources_RunsAll(sp, flag, k, fault) ==
    LET r1 == IF sp.storage
              THEN reconcilePVC(sp, k.pvc, fault = "pvc")
              ELSE [pvc |-> k.pvc, err |-> FALSE, op |-> "none"]
        r2 == reconcileNetworkPolicy(flag, k.networkPolicy, fault = "np")
        r3 == reconcileDeployment(sp, k.deployment, fault = "dep")
        r4 == IF HasPorts(sp)
              THEN reconcileService(sp, k.service, fault = "svc")
              ELSE [service |-> k.service, err |-> FALSE, op |-> "none"]
    IN  [k |-> [pvc |-> r1.pvc, networkPolicy |-> r2.networkPolicy,
                deployment |-> r3.deployment, service |-> r4.service],
         err |-> IF r1.err THEN "pvc" ELSE IF r2.err THEN "np"
                 ELSE IF r3.err THEN "dep" ELSE IF r4.err THEN "svc"
                 ELSE "none",
         steps |-> (IF sp.storage THEN << "pvc" >> ELSE << >>)
                   \o << "np", "dep" >>
                   \o (IF HasPorts(sp) THEN << "svc" >> ELSE << >>),
         ops |-> [pvc |-> r1.op, networkPolicy |-> r2.op,
                  deployment |-> r3.op, service |-> r4.op]]

\* reconcileResources: PVC (if storage is configured), NetworkPolicy,
\* Deployment, Service (if ports are defined); the first error ends it.
\* k: the children as in the store; the result carries them as left behind,
\* err, the step that failed or "none", steps, the reconcile functions
\* called, in order, and ops, the write each issued.
reconcileResources(sp, flag, k, fault) ==
    LET r1 == IF sp.storage
              THEN reconcilePVC(sp, k.pvc, fault = "pvc")
              ELSE [pvc |-> k.pvc, err |-> FALSE, op |-> "none"]
        s1 == IF sp.storage THEN << "pvc" >> ELSE << >>
        r2 == reconcileNetworkPolicy(flag, k.networkPolicy, fault = "np")
        s2 == Append(s1, "np")
        r3 == reconcileDeployment(sp, k.deployment, fault = "dep")
        s3 == Append(s2, "dep")
        r4 == IF HasPorts(sp)
              THEN reconcileService(sp, k.service, fault = "svc")
              ELSE [service |-> k.service, err |-> FALSE, op |-> "none"]
        s4 == IF HasPorts(sp) THEN Append(s3, "svc") ELSE s3
    IN  IF r1.err
        THEN [k |-> [k EXCEPT !.pvc = r1.pvc], err |-> "pvc", steps |-> s1,
              ops |-> [NoOps EXCEPT !.pvc = r1.op]]
        ELSE IF r2.err
        THEN [k |-> [k EXCEPT !.pvc = r1.pvc,
                              !.networkPolicy = r2.networkPolicy],
              err |-> "np", steps |-> s2,
              ops |-> [NoOps EXCEPT !.pvc = r1.op, !.networkPolicy = r2.op]]
        ELSE IF r3.err
        THEN [k |-> [k EXCEPT !.pvc = r1.pvc,
                              !.networkPolicy = r2.networkPolicy,
                              !.deployment = r3.deployment],
              err |-> "dep", steps |-> s3,
              ops |-> [NoOps EXCEPT !.pvc = r1.op, !.networkPolicy = r2.op,
                                    !.deployment = r3.op]]
        ELSE IF r4.err
        THEN [k |-> [pvc |-> r1.pvc, networkPolicy |-> r2.networkPolicy,
                     deployment |-> r3.deployment, service |-> r4.service],
              err |-> "svc", steps |-> s4,
              ops |-> [pvc |-> r1.op, networkPolicy |-> r2.op,
                       deployment |-> r3.op, service |-> r4.op]]
        ELSE [k |-> [pvc |-> r1.pvc, networkPolicy |-> r2.networkPolicy,
                     deployment |-> r3.deployment, service |-> r4.service],
              err |-> "none", steps |-> s4,
              ops |-> [pvc |-> r1.op, networkPolicy |-> r2.op,
                       deployment |-> r3.op, service |-> r4.op]]

\* ------------------------------------------------------- Network Probe

\* What GET /v1/health can do: fail in transport, answer non-200, answer 200.
HealthReplies == {"error", "unhealthy", "healthy"}

\* What GET /v1/providers can do: fail (transport, non-200, bad body), or
\* answer a list, possibly empty.
ProviderReplies ==
    { [err |-> TRUE, data |-> NoProviders],
      [err |-> FALSE, data |-> NoProviders],
      [err |-> FALSE, data |-> SomeProviders] }

\* checkHealth: (StatusCode == 200, nil) or (false, err).
checkHealth(reply) ==
    [healthy |-> reply = "healthy", err |-> reply = "error"]

\* getProviderInfo: (response.Data, nil) or (nil, err).
getProviderInfo(reply) ==
    IF reply.err THEN [providers |-> NoProviders, err |-> TRUE]
    ELSE [providers |-> reply.data, err |-> FALSE]

\* ---------------------------------------------------- Status Evaluator

CondOf(b) == IF b THEN CondTrue ELSE CondFalse

SetDeploymentReadyCondition(st, ready) ==
    [st EXCEPT !.deploymentReady = CondOf(ready)]

SetHealthCheckCondition(st, ready) ==
    [st EXCEPT !.healthReady = CondOf(ready)]

SetStorageReadyCondition(st, ready) ==
    [st EXCEPT !.storageReady = CondOf(ready)]

SetServiceReadyCondition(st, ready) ==
    [st EXCEPT !.serviceReady = CondOf(ready)]

\* deploymentCase without its ReadyReplicas == 0 case.
deploymentCase_NoZeroCase(found, readyReplicas, replicas) ==
    CASE ~found -> "notfound"
      [] readyReplicas < replicas -> "scalingUp"
      [] readyReplicas > replicas -> "scalingDown"
      [] OTHER -> "ready"

\* deploymentCase that compares ReadyReplicas with the replicas asked for
\* before it looks for ReadyReplicas == 0.
deploymentCase_ZeroCaseLast(found, readyReplicas, replicas) ==
    CASE ~found -> "notfound"
      [] readyReplicas < replicas -> "scalingUp"
      [] readyReplicas > replicas -> "scalingDown"
      [] readyReplicas = 0 /\ replicas # 0 -> "zero"
      [] OTHER -> "ready"

\* The switch of updateDeploymentStatus, as the case it takes.
deploymentCase(found, readyReplicas, replicas) ==
    CASE ~found -> "notfound"
      [] readyReplicas = 0 -> "zero"
      [] readyReplicas < replicas -> "scalingUp"
      [] readyReplicas > replicas -> "scalingDown"
      [] OTHER -> "ready"

\* deploymentPhase with the scaling-down case taken for ready.
deploymentPhase_ScalingDownReady(c) ==
    CASE c = "notfound" -> PhasePending
      [] c = "zero" -> PhaseInitializing
      [] c = "scalingUp" -> PhaseInitializing
      [] OTHER -> PhaseReady

\* The phase each case of the switch sets.
deploymentPhase(c) ==
    CASE c = "notfound" -> PhasePending
      [] c = "zero" -> PhaseInitializing
      [] c = "scalingUp" -> PhaseInitializing
      [] c = "scalingDown" -> PhaseInitializing
      [] OTHER -> PhaseReady

\* updateDeploymentStatus that leaves a fetched phase Failed in place.
updateDeploymentStatus_StickyFailed(st, sp, dep, getErr) ==
    IF getErr THEN [status |-> st, ready |-> FALSE, err |-> TRUE, read |-> "error"]
    ELSE LET rr == IF dep.exists THEN dep.readyReplicas ELSE 0
             c == deploymentCase(dep.exists, rr, sp.replicas)
             ph == IF st.phase = PhaseFailed THEN PhaseFailed
                   ELSE deploymentPhase(c)
             st1 == SetDeploymentReadyCondition(
                        [st EXCEPT !.phase = ph], c = "ready")
         IN  [status |-> [st1 EXCEPT !.availableReplicas = rr],
              ready |-> (c = "ready"),
              err |-> FALSE,
              read |-> IF dep.exists THEN "found" ELSE "notfound"]

\* updateDeploymentStatus that sets AvailableReplicas in its ready case only.
updateDeploymentStatus_AvailableWhenReady(st, sp, dep, getErr) ==
    IF getErr THEN [status |-> st, ready |-> FALSE, err |-> TRUE, read |-> "error"]
    ELSE LET rr == IF dep.exists THEN dep.readyReplicas ELSE 0
             c == deploymentCase(dep.exists, rr, sp.replicas)
             st1 == SetDeploymentReadyCondition(
                        [st EXCEPT !.phase = deploymentPhase(c)], c = "ready")
         IN  [status |-> IF c = "ready"
                         THEN [st1 EXCEPT !.availableReplicas = rr] ELSE st1,
              ready |-> (c = "ready"),
              err |-> FALSE,
              read |-> IF dep.exists THEN "found" ELSE "notfound"]

\* updateDeploymentStatus.  getErr: the Get fails with an error other than
\* not-found, and the status is returned untouched.  A Deployment that is
\* not found is the zero value: ReadyReplicas 0.
updateDeploymentStatus(st, sp, dep, getErr) ==
    IF getErr THEN [status |-> st, ready |-> FALSE, err |-> TRUE, read |-> "error"]
    ELSE LET rr == IF dep.exists THEN dep.readyReplicas ELSE 0
             c == deploymentCase(dep.exists, rr, sp.replicas)
             st1 == SetDeploymentReadyCondition(
                        [st EXCEPT !.phase = deploymentPhase(c)], c = "ready")
         IN  [status |-> [st1 EXCEPT !.availableReplicas = rr],
              ready |-> (c = "ready"),
              err |-> FALSE,
              read |-> IF dep.exists THEN "found" ELSE "notfound"]

\* updateStorageStatus that holds the phase at Pending until the claim is
\* bound.
updateStorageStatus_PendingUntilBound(st, sp, p) ==
    IF ~sp.storage THEN st
    ELSE IF p.phase = "absent" THEN SetStorageReadyCondition(st, FALSE)
    ELSE IF p.phase = "Bound" THEN SetStorageReadyCondition(st, TRUE)
    ELSE SetStorageReadyCondition([st EXCEPT !.phase = PhasePending], FALSE)

\* updateStorageStatus: nothing without storage in the spec; false when the
\* claim cannot be read; else true iff the claim is Bound.
updateStorageStatus(st, sp, p) ==
    IF ~sp.storage THEN st
    ELSE IF p.phase = "absent" THEN SetStorageReadyCondition(st, FALSE)
    ELSE SetStorageReadyCondition(st, p.phase = "Bound")

\* updateServiceStatus: nothing without ports; else true iff the Service
\* can be read.
updateServiceStatus(st, sp, svc) ==
    IF ~HasPorts(sp) THEN st
    ELSE SetServiceReadyCondition(st, svc)

\* healthPhase with a transport error taken for an unhealthy answer.
healthPhase_ErrorIsFailed(h) ==
    CASE h.err -> PhaseFailed
      [] ~h.healthy -> PhaseFailed
      [] OTHER -> PhaseReady

\* The phase and health condition performHealthChecks sets for a probe result.
healthPhase(h) ==
    CASE h.err -> PhaseInitializing
      [] ~h.healthy -> PhaseFailed
      [] OTHER -> PhaseReady

\* performHealthChecks: the probe sets phase and condition; then the
\* provider listing, whatever the probe said: its list on success, nil on error.
performHealthChecks(st, healthReply, providerReply) ==
    LET h == checkHealth(healthReply)
        st1 == SetHealthCheckCondition(
                   [st EXCEPT !.phase = healthPhase(h)], ~h.err /\ h.healthy)
        p == getProviderInfo(providerReply)
    IN  [st1 EXCEPT !.providers = IF p.err THEN NoProviders ELSE p.providers]

\* What a pass's status step meets: the Get of the Deployment failing, the
\* two endpoints' replies, the status write failing.
StatusInputs ==
    [ depGetErr : BOOLEAN,
      health : HealthReplies,
      providers : ProviderReplies,
      writeErr : BOOLEAN ]

\* statusOnReconcileErr that sets the condition and leaves the phase.
statusOnReconcileErr_KeepPhase(st) ==
    SetDeploymentReadyCondition(st, FALSE)

\* The reconcileErr branch of updateStatus: phase Failed, workload-ready
\* false, nothing else of the fetched status touched.
statusOnReconcileErr(st) ==
    SetDeploymentReadyCondition([st EXCEPT !.phase = PhaseFailed], FALSE)

\* The not-ready branch of updateStatus: health false, providers cleared.
statusOnNotReady(st) ==
    [SetHealthCheckCondition(st, FALSE) EXCEPT !.providers = NoProviders]

\* updateStatus up to its status write.  st: instance.Status as fetched.
\* The result: mem, the in-memory status; exit, the early return on a
\* Deployment that cannot be read; and what was read and called.
evaluateStatus(st, sp, rErr, k, in) ==
    LET d == updateDeploymentStatus(st, sp, k.deployment, in.depGetErr)
        st2 == updateServiceStatus(
                   updateStorageStatus(d.status, sp, k.pvc), sp, k.service)
    IN  IF rErr # "none"
        THEN [mem |-> statusOnReconcileErr(st), exit |-> FALSE,
              depRead |-> "notread", deploymentReady |-> FALSE,
              health |-> "notcalled", providers |-> "notcalled"]
        ELSE IF d.err
        THEN [mem |-> st, exit |-> TRUE,
              depRead |-> d.read, deploymentReady |-> FALSE,
              health |-> "notcalled", providers |-> "notcalled"]
        ELSE IF d.ready
        THEN [mem |-> performHealthChecks(st2, in.health, in.providers),
              exit |-> FALSE,
              depRead |-> d.read, deploymentReady |-> TRUE,
              health |-> in.health,
              providers |-> IF in.providers.err THEN "error" ELSE "ok"]
        ELSE [mem |-> statusOnNotReady(st2), exit |-> FALSE,
              depRead |-> d.read, deploymentReady |-> FALSE,
              health |-> "notcalled", providers |-> "notcalled"]

\* updateStatus that returns without a status write when reconcileErr is set.
updateStatus_NoWriteOnReconcileErr(st, sp, rErr, k, in) ==
    LET e == evaluateStatus(st, sp, rErr, k, in)
    IN  IF e.exit \/ rErr # "none"
        THEN [mem |-> e.mem, err |-> TRUE, writes |-> 0, persisted |-> FALSE,
              depRead |-> e.depRead, deploymentReady |-> e.deploymentReady,
              health |-> e.health, providers |-> e.providers]
        ELSE [mem |-> e.mem, err |-> in.writeErr, writes |-> 1,
              persisted |-> ~in.writeErr,
              depRead |-> e.depRead, deploymentReady |-> e.deploymentReady,
              health |-> e.health, providers |-> e.providers]

\* updateStatus: the evaluation, then the one Status().Update at the end,
\* which the early return skips.  The result adds err; writes, the number
\* of Status().Update calls; persisted, whether the write went through.
updateStatus(st, sp, rErr, k, in) ==
    LET e == evaluateStatus(st, sp, rErr, k, in)
    IN  IF e.exit
        THEN [mem |-> e.mem, err |-> TRUE, writes |-> 0, persisted |-> FALSE,
              depRead |-> e.depRead, deploymentReady |-> e.deploymentReady,
              health |-> e.health, providers |-> e.providers]
        ELSE [mem |-> e.mem, err |-> in.writeErr, writes |-> 1,
              persisted |-> ~in.writeErr,
              depRead |-> e.depRead, deploymentReady |-> e.deploymentReady,
              health |-> e.health, providers |-> e.providers]

\* -------------------------------------------- Reconciliation Orchestrator

\* ReconcileResult that looks at the phase before the status update error.
ReconcileResult_PhaseBeforeStatusErr(rErr, statusUpdateErr, phase) ==
    IF rErr # "none" THEN [err |-> "reconcile", requeueAfter |-> 0]
    ELSE IF phase = PhaseInitializing
         THEN [err |-> "none", requeueAfter |-> RequeueDelay]
    ELSE IF statusUpdateErr THEN [err |-> "status", requeueAfter |-> 0]
    ELSE [err |-> "none", requeueAfter |-> 0]

\* ReconcileResult that returns the status update error whenever there is one.
ReconcileResult_StatusErrFirst(rErr, statusUpdateErr, phase) ==
    IF statusUpdateErr THEN [err |-> "status", requeueAfter |-> 0]
    ELSE IF rErr # "none" THEN [err |-> "reconcile", requeueAfter |-> 0]
    ELSE IF phase = PhaseInitializing
         THEN [err |-> "none", requeueAfter |-> RequeueDelay]
         ELSE [err |-> "none", requeueAfter |-> 0]

\* ReconcileResult that drops the status update error.
ReconcileResult_DropsStatusErr(rErr, statusUpdateErr, phase) ==
    IF rErr # "none" THEN [err |-> "reconcile", requeueAfter |-> 0]
    ELSE IF phase = PhaseInitializing
         THEN [err |-> "none", requeueAfter |-> RequeueDelay]
         ELSE [err |-> "none", requeueAfter |-> 0]

\* What Reconcile returns after updateStatus: the reconcile error first,
\* then the status update error, then a requeue for phase Initializing.
ReconcileResult(rErr, statusUpdateErr, phase) ==
    IF statusUpdateErr
    THEN (IF rErr # "none"
          THEN [err |-> "reconcile", requeueAfter |-> 0]
          ELSE [err |-> "status", requeueAfter |-> 0])
    ELSE IF rErr # "none" THEN [err |-> "reconcile", requeueAfter |-> 0]
    ELSE IF phase = PhaseInitializing
         THEN [err |-> "none", requeueAfter |-> RequeueDelay]
         ELSE [err |-> "none", requeueAfter |-> 0]

\* What a pass's run of reconcileResources did: the step that failed or
\* "none", the reconcile functions called, the write each issued.  NoSync
\* when no pass has just returned, and in the passes of Spec, which keep no
\* such record.
NoSync == [ran |-> FALSE, err |-> "none", steps |-> << >>, ops |-> NoOps]

SyncRecord(r) == [ran |-> TRUE, err |-> r.err, steps |-> r.steps, ops |-> r.ops]

\* The record of a pass; NoPass when no pass has just returned.  fetch is
\* what fetchInstance met: "found", "notfound" or "error".
NoPass ==
    [ done |-> FALSE,
      fetch |-> "",
      found |-> FALSE,
      sync |-> NoSync,
      syncErr |-> FALSE,
      depRead |-> "notread",
      deploymentReady |-> FALSE,
      health |-> "notcalled",
      providers |-> "notcalled",
      writes |-> 0,
      persisted |-> FALSE,
      statusErr |-> FALSE,
      phase |-> "",
      result |-> [err |-> "none", requeueAfter |-> 0] ]

kids == [pvc |-> pvc, networkPolicy |-> networkPolicy,
         deployment |-> deployment, service |-> service]

\* The passes of SpecRace.
Passes == 1..MaxPasses

\* A pass that has not started: at is where it stands; version and inst the
\* resourceVersion and the status of the instance it fetched; err the
\* reconcileErr it holds ("none", "AlreadyExists" from the claim's Create,
\* "dep" from the Deployment step); done, it has returned; stale, the
\* resource had another resourceVersion by the time of its status write;
\* persisted and phase what its status write stored; result what it returned.
IdlePass ==
    [ at |-> "idle",
      version |-> 0,
      inst |-> EmptyStatus,
      err |-> "none",
      done |-> FALSE,
      stale |-> FALSE,
      persisted |-> FALSE,
      phase |-> "",
      result |-> [err |-> "none", requeueAfter |-> 0] ]

Init ==
    /\ crExists = TRUE
    /\ spec \in InitSpecs
    /\ status = EmptyStatus
    /\ pvc = NoPVC
    /\ networkPolicy = FALSE
    /\ deployment = NoDeployment
    /\ service = FALSE
    /\ EnableNetworkPolicy \in BOOLEAN
    /\ pc = "idle"
    /\ last = NoPass
    /\ objects = {}
    /\ passes = [p \in Passes |-> IdlePass]
    /\ resourceVersion = 0
    /\ endpoint = "error"

\* Reconcile with fetchInstance passing the not-found on as an error.
ReconcileNoInstance_NotFoundIsError(fetchErr) ==
    /\ pc = "idle"
    /\ fetchErr \/ ~crExists
    /\ last' = [NoPass EXCEPT
                  !.done = TRUE,
                  !.fetch = IF fetchErr THEN "error" ELSE "notfound",
                  !.result = [err |-> "fetch", requeueAfter |-> 0]]
    /\ UNCHANGED << crExists, spec, status, pvc, networkPolicy, deployment,
                    service, EnableNetworkPolicy, pc, objects, passes,
                    resourceVersion, endpoint >>

\* Reconcile, when fetchInstance returns an error (fetchErr) or finds
\* nothing: the pass returns at once, the error or success, nothing written.
ReconcileNoInstance(fetchErr) ==
    /\ pc = "idle"
    /\ fetchErr \/ ~crExists
    /\ last' = [NoPass EXCEPT
                  !.done = TRUE,
                  !.fetch = IF fetchErr THEN "error" ELSE "notfound",
                  !.result = [err |-> IF fetchErr THEN "fetch" ELSE "none",
                              requeueAfter |-> 0]]
    /\ UNCHANGED << crExists, spec, status, pvc, networkPolicy, deployment,
                    service, EnableNetworkPolicy, pc, objects, passes,
                    resourceVersion, endpoint >>

\* The record of a pass that found the instance: s is what its
\* reconcileResources did, rErr its reconcileErr, u what updateStatus
\* returned.
PassRecord(s, rErr, u) ==
    [ done |-> TRUE,
      fetch |-> "found",
      found |-> TRUE,
      sync |-> s,
      syncErr |-> rErr # "none",
      depRead |-> u.depRead,
      deploymentReady |-> u.deploymentReady,
      health |-> u.health,
      providers |-> u.providers,
      writes |-> u.writes,
      persisted |-> u.persisted,
      statusErr |-> u.err,
      phase |-> u.mem.phase,
      result |-> ReconcileResult(rErr, u.err, u.mem.phase) ]

\* Reconcile, first step: the instance is fetched and reconcileResources
\* returns nil; updateStatus is next.
ReconcileSync(fault) ==
    /\ pc = "idle"
    /\ crExists
    /\ LET r == reconcileResources(spec, EnableNetworkPolicy, kids, fault)
       IN  /\ r.err = "none"
           /\ pvc' = r.k.pvc
           /\ networkPolicy' = r.k.networkPolicy
           /\ deployment' = r.k.deployment
           /\ service' = r.k.service
    /\ pc' = "status"
    /\ last' = NoPass
    /\ UNCHANGED << crExists, spec, status, EnableNetworkPolicy, objects,
                    passes, resourceVersion, endpoint >>

\* What updateStatus meets when reconcileErr is set: it reads no child and
\* calls no endpoint; writeErr: the status write fails.
FailedSyncInput(writeErr) ==
    [depGetErr |-> FALSE, health |-> "error",
     providers |-> [err |-> TRUE, data |-> NoProviders],
     writeErr |-> writeErr]

\* Reconcile, when reconcileResources returns an error: updateStatus takes
\* its reconcileErr branch, which reads no child and calls no endpoint, and
\* the pass returns.  writeErr: the status write fails.
ReconcileSyncFailed(fault, writeErr) ==
    /\ pc = "idle"
    /\ crExists
    /\ LET r == reconcileResources(spec, EnableNetworkPolicy, kids, fault)
           u == updateStatus(status, spec, r.err, r.k, FailedSyncInput(writeErr))
       IN  /\ r.err # "none"
           /\ pvc' = r.k.pvc
           /\ networkPolicy' = r.k.networkPolicy
           /\ deployment' = r.k.deployment
           /\ service' = r.k.service
           /\ status' = IF u.persisted THEN u.mem ELSE status
           /\ last' = PassRecord(NoSync, r.err, u)
    /\ pc' = "idle"
    /\ UNCHANGED << crExists, spec, EnableNetworkPolicy, objects,
                    passes, resourceVersion, endpoint >>

\* Reconcile, second step after reconcileResources returned nil:
\* updateStatus, then the return.
ReconcileStatus(in) ==
    /\ pc = "status"
    /\ LET u == updateStatus(status, spec, "none", kids, in)
       IN  /\ status' = IF u.persisted THEN u.mem ELSE status
           /\ last' = PassRecord(NoSync, "none", u)
    /\ pc' = "idle"
    /\ UNCHANGED << crExists, spec, pvc, networkPolicy, deployment, service,
                    EnableNetworkPolicy, objects, passes, resourceVersion,
                    endpoint >>

\* ------------------------------------------------------- other actors

\* A user changes the spec: scales the server.
UpdateSpec(n) ==
    /\ pc = "idle"
    /\ crExists
    /\ n # spec.replicas
    /\ spec' = [spec EXCEPT !.replicas = n]
    /\ last' = NoPass
    /\ UNCHANGED << crExists, status, pvc, networkPolicy, deployment, service,
                    EnableNetworkPolicy, pc, objects, passes,
                    resourceVersion, endpoint >>

\* A user deletes the resource.
DeleteCR ==
    /\ pc = "idle"
    /\ crExists
    /\ crExists' = FALSE
    /\ status' = EmptyStatus
    /\ last' = NoPass
    /\ UNCHANGED << spec, pvc, networkPolicy, deployment, service,
                    EnableNetworkPolicy, pc, objects, passes,
                    resourceVersion, endpoint >>

\* The Deployment controller: a replica becomes ready, or stops being ready.
DeploymentProgress ==
    /\ deployment.exists
    /\ \/ /\ deployment.readyReplicas < deployment.replicas
          /\ deployment' = [deployment EXCEPT !.readyReplicas = @ + 1]
       \/ /\ deployment.readyReplicas > 0
          /\ deployment' = [deployment EXCEPT !.readyReplicas = @ - 1]
    /\ last' = NoPass
    /\ UNCHANGED << crExists, spec, status, pvc, networkPolicy, service,
                    EnableNetworkPolicy, pc, objects, passes,
                    resourceVersion, endpoint >>

\* The volume binder binds the claim.
BindPVC ==
    /\ pvc.phase = "Pending"
    /\ pvc' = [pvc EXCEPT !.phase = "Bound"]
    /\ last' = NoPass
    /\ UNCHANGED << crExists, spec, status, networkPolicy, deployment, service,
                    EnableNetworkPolicy, pc, objects, passes,
                    resourceVersion, endpoint >>

\* The Deployment is deleted: by a user, or by garbage collection.
DeleteDeployment ==
    /\ deployment.exists
    /\ deployment' = NoDeployment
    /\ last' = NoPass
    /\ UNCHANGED << crExists, spec, status, pvc, networkPolicy, service,
                    EnableNetworkPolicy, pc, objects, passes,
                    resourceVersion, endpoint >>

Next ==
    \/ \E fetchErr \in BOOLEAN : ReconcileNoInstance(fetchErr)
    \/ \E fault \in Faults : ReconcileSync(fault)
    \/ \E fault \in Faults, writeErr \in BOOLEAN : ReconcileSyncFailed(fault, writeErr)
    \/ \E in \in StatusInputs : ReconcileStatus(in)
    \/ \E n \in 0..MaxReplicas : UpdateSpec(n)
    \/ DeleteCR
    \/ DeploymentProgress
    \/ BindPVC
    \/ DeleteDeployment

Spec == Init /\ [][Next]_vars

\* ------------------------------------- the synchronizer, pass by pass

\* What the status step meets in the passes below: the Deployment is read,
\* the server answers 200 and lists its providers, the status write succeeds.
SyncStatusInputs ==
    { in \in StatusInputs :
        /\ ~in.depGetErr
        /\ ~in.writeErr
        /\ in.health = "healthy"
        /\ in.providers = [err |-> FALSE, data |-> SomeProviders] }

\* Reconcile for an instance that is found, with no other actor between its
\* steps: reconcileResources, updateStatus with its error, the return.  The
\* record keeps what reconcileResources did.
ReconcilePass(fault, in) ==
    /\ pc = "idle"
    /\ crExists
    /\ LET r == reconcileResources(spec, EnableNetworkPolicy, kids, fault)
           u == updateStatus(status, spec, r.err, r.k, in)
       IN  /\ pvc' = r.k.pvc
           /\ networkPolicy' = r.k.networkPolicy
           /\ deployment' = r.k.deployment
           /\ service' = r.k.service
           /\ status' = IF u.persisted THEN u.mem ELSE status
           /\ last' = PassRecord(SyncRecord(r), r.err, u)
    /\ UNCHANGED << crExists, spec, EnableNetworkPolicy, pc, objects,
                    passes, resourceVersion, endpoint >>

\* A user changes the storage section of the spec: sets or removes it,
\* changes the requested size.
UpdateStorage(st, sz) ==
    /\ pc = "idle"
    /\ crExists
    /\ st \/ sz = NoSize
    /\ << st, sz >> # << spec.storage, spec.size >>
    /\ spec' = [spec EXCEPT !.storage = st, !.size = sz]
    /\ last' = NoPass
    /\ UNCHANGED << crExists, status, pvc, networkPolicy, deployment, service,
                    EnableNetworkPolicy, pc, objects, passes,
                    resourceVersion, endpoint >>

\* The operator is restarted with the feature flag changed in its ConfigMap.
RestartOperator(flag) ==
    /\ pc = "idle"
    /\ flag # EnableNetworkPolicy
    /\ EnableNetworkPolicy' = flag
    /\ last' = NoPass
    /\ UNCHANGED << crExists, spec, status, pvc, networkPolicy, deployment,
                    service, pc, objects, passes, resourceVersion, endpoint >>

NextSync ==
    \/ \E fault \in Faults, in \in SyncStatusInputs : ReconcilePass(fault, in)
    \/ \E n \in 0..MaxReplicas : UpdateSpec(n)
    \/ \E st \in BOOLEAN, sz \in StorageSizes : UpdateStorage(st, sz)
    \/ \E flag \in BOOLEAN : RestartOperator(flag)
    \/ BindPVC
    \/ DeleteDeployment

\* Passes, spec changes and restarts in any order, each pass atomic.
SpecSync == Init /\ [][NextSync]_vars

\* ------------------------------------------------ two passes at once

\* req.Name: the one LlamaStackDistribution of the model.
InstanceName == "demo"

\* The names the children are built with.
PVCName(n) == n \o "-pvc"
NetworkPolicyName(n) == n \o "-network-policy"
DeploymentName(n) == n
ServiceName(n) == n \o "-service"

Kinds == {"pvc", "np", "dep", "svc"}

\* r.Get(ctx, key, obj): an object of the kind under the name.
ObjFound(objs, kind, name) == [kind |-> kind, name |-> name] \in objs

\* The children a pass reads by their names.
kidsByName(objs, sp) ==
    [ pvc |-> IF ObjFound(objs, "pvc", PVCName(InstanceName))
              THEN desiredPVC(sp) ELSE NoPVC,
      networkPolicy |-> ObjFound(objs, "np", NetworkPolicyName(InstanceName)),
      deployment |-> IF ObjFound(objs, "dep", DeploymentName(InstanceName))
                     THEN [exists |-> TRUE, replicas |-> sp.replicas,
                           readyReplicas |-> 0]
                     ELSE NoDeployment,
      service |-> ObjFound(objs, "svc", ServiceName(InstanceName)) ]

\* The store after a write of the object: present, or absent.
Stored(objs, kind, name, present) ==
    IF present THEN objs \cup {[kind |-> kind, name |-> name]}
    ELSE objs \ {[kind |-> kind, name |-> name]}

\* Reconcile starts: the instance is fetched, with the resourceVersion and
\* the status it has in the store; reconcilePVC is next if storage is
\* configured.
RaceFetch(p) ==
    /\ passes[p].at = "idle"
    /\ crExists
    /\ resourceVersion < MaxVersion
    /\ passes' = [passes EXCEPT ![p] =
                     [IdlePass EXCEPT
                        !.at = IF spec.storage THEN "get" ELSE "apply",
                        !.version = resourceVersion,
                        !.inst = status]]
    /\ UNCHANGED << crExists, spec, status, pvc, networkPolicy, deployment,
                    service, EnableNetworkPolicy, pc, last, objects,
                    resourceVersion, endpoint >>

\* reconcilePVC, the Get: found, the step is over; not found, Create is next.
RacePVCGet(p) ==
    /\ passes[p].at = "get"
    /\ passes' = [passes EXCEPT ![p].at =
                     IF ObjFound(objects, "pvc", PVCName(InstanceName))
                     THEN "apply" ELSE "create"]
    /\ UNCHANGED << crExists, spec, status, pvc, networkPolicy, deployment,
                    service, EnableNetworkPolicy, pc, last, objects,
                    resourceVersion, endpoint >>

\* reconcilePVC's Create under a name of the pass's own.
RacePVCCreate_OwnName(p) ==
    /\ passes[p].at = "create"
    /\ LET name == PVCName(InstanceName) \o "-" \o ToString(p)
           taken == ObjFound(objects, "pvc", name)
       IN  /\ objects' = IF taken THEN objects
                         ELSE Stored(objects, "pvc", name, TRUE)
           /\ passes' = [passes EXCEPT
                           ![p].at = IF taken THEN "status" ELSE "apply",
                           ![p].err = IF taken THEN "AlreadyExists" ELSE "none"]
    /\ UNCHANGED << crExists, spec, status, pvc, networkPolicy, deployment,
                    service, EnableNetworkPolicy, pc, last, resourceVersion,
                    endpoint >>

\* reconcilePVC, the Create after a not-found: its error, AlreadyExists
\* when the name is taken by now, is returned and ends reconcileResources.
RacePVCCreate(p) ==
    /\ passes[p].at = "create"
    /\ LET name == PVCName(InstanceName)
           r == createPVC(spec, kidsByName(objects, spec).pvc)
       IN  /\ objects' = IF r.err THEN objects
                         ELSE Stored(objects, "pvc", name, TRUE)
           /\ passes' = [passes EXCEPT
                           ![p].at = IF r.err THEN "status" ELSE "apply",
                           ![p].err = IF r.err THEN "AlreadyExists" ELSE "none"]
    /\ UNCHANGED << crExists, spec, status, pvc, networkPolicy, deployment,
                    service, EnableNetworkPolicy, pc, last, resourceVersion,
                    endpoint >>

\* reconcileResources after the claim: NetworkPolicy, Deployment, Service
\* (if ports), each through its apply helper, the first error ending it.
RaceApply(p) ==
    /\ passes[p].at = "apply"
    /\ LET k == kidsByName(objects, spec)
           r2 == reconcileNetworkPolicy(EnableNetworkPolicy, k.networkPolicy, FALSE)
           r3 == reconcileDeployment(spec, k.deployment, FALSE)
           r4 == IF HasPorts(spec)
                 THEN reconcileService(spec, k.service, FALSE)
                 ELSE [service |-> k.service, err |-> FALSE, op |-> "none"]
           o2 == Stored(objects, "np", NetworkPolicyName(InstanceName),
                        r2.networkPolicy)
           o3 == Stored(o2, "dep", DeploymentName(InstanceName),
                        r3.deployment.exists)
           o4 == Stored(o3, "svc", ServiceName(InstanceName), r4.service)
       IN  /\ objects' = IF r3.err THEN o2 ELSE o4
           /\ passes' = [passes EXCEPT
                           ![p].at = "status",
                           ![p].err = IF r3.err THEN "dep" ELSE "none"]
    /\ UNCHANGED << crExists, spec, status, pvc, networkPolicy, deployment,
                    service, EnableNetworkPolicy, pc, last, resourceVersion,
                    endpoint >>

\* r.Status().Update of an instance read at readVersion, the store holding
\* storedVersion: the store refuses the write of a version it no longer
\* holds (Conflict), and Update returns that error.
StatusUpdateConflict(readVersion, storedVersion) == readVersion # storedVersion

\* updateStatus with the pass's reconcileErr, on the instance the pass
\* fetched, and the return.  A write the store accepts gives the resource
\* its next resourceVersion.
RaceStatus(p, in) ==
    /\ passes[p].at = "status"
    /\ LET rErr == IF passes[p].err = "AlreadyExists" THEN "pvc"
                   ELSE passes[p].err
           conflict == StatusUpdateConflict(passes[p].version, resourceVersion)
           u == updateStatus(passes[p].inst, spec, rErr,
                             kidsByName(objects, spec),
                             [in EXCEPT !.writeErr = in.writeErr \/ conflict])
       IN  /\ status' = IF u.persisted THEN u.mem ELSE status
           /\ resourceVersion' = IF u.persisted THEN resourceVersion + 1
                                 ELSE resourceVersion
           /\ passes' = [passes EXCEPT
                           ![p].at = "idle",
                           ![p].done = TRUE,
                           ![p].stale = conflict,
                           ![p].persisted = u.persisted,
                           ![p].phase = u.mem.phase,
                           ![p].result = ReconcileResult(rErr, u.err, u.mem.phase)]
    /\ UNCHANGED << crExists, spec, pvc, networkPolicy, deployment, service,
                    EnableNetworkPolicy, pc, last, objects, endpoint >>

NextRace ==
    \/ \E p \in Passes : RaceFetch(p)
    \/ \E p \in Passes : RacePVCGet(p)
    \/ \E p \in Passes : RacePVCCreate(p)
    \/ \E p \in Passes : RaceApply(p)
    \/ \E p \in Passes, in \in SyncStatusInputs : RaceStatus(p, in)

\* Two passes for the same resource, their store calls interleaved, no API
\* fault and no other actor.
SpecRace == Init /\ [][NextRace]_vars

\* ------------------------------------------------ the triggers of a pass

\* A request for the resource is in the work queue: the resource was created
\* or its spec or a child it owns has changed since the last pass (the other
\* actors leave no pass record), the last pass changed a child it owns, it
\* returned an error, or it asked to be run again after RequeueDelay.  These
\* are the triggers C22 assumes; the event of the pass's own status write
\* is not among them.
Triggered ==
    \/ ~last.done
    \/ \E kind \in DOMAIN last.sync.ops : last.sync.ops[kind] # "none"
    \/ last.result.err # "none"
    \/ last.result.requeueAfter > 0

\* What the status step of a pass of SpecLive meets: the health endpoint
\* does what it does at the moment, the provider endpoint answers its list.
LiveStatusInputs ==
    { in \in StatusInputs :
        /\ in.health = endpoint
        /\ in.providers = [err |-> FALSE, data |-> SomeProviders] }

\* Reconcile for an instance that is found, run for a request in the work
\* queue: reconcileResources, updateStatus with its error, the return.  r
\* and u are what the two returned.
LivePass(fault, in) ==
    /\ pc = "idle"
    /\ crExists
    /\ Triggered
    /\ \E r \in {reconcileResources(spec, EnableNetworkPolicy, kids, fault)} :
       \E u \in {updateStatus(status, spec, r.err, r.k, in)} :
          /\ pvc' = r.k.pvc
          /\ networkPolicy' = r.k.networkPolicy
          /\ deployment' = r.k.deployment
          /\ service' = r.k.service
          /\ status' = IF u.persisted THEN u.mem ELSE status
          /\ last' = PassRecord(SyncRecord(r), r.err, u)
    /\ UNCHANGED << crExists, spec, EnableNetworkPolicy, pc, objects, passes,
                    resourceVersion, endpoint >>

\* The server starts or stops answering its health endpoint, or changes
\* its answer.  The controller watches no endpoint: no request is queued.
EndpointChange(reply) ==
    /\ reply # endpoint
    /\ endpoint' = reply
    /\ UNCHANGED << crExists, spec, status, pvc, networkPolicy, deployment,
                    service, EnableNetworkPolicy, pc, last, objects, passes,
                    resourceVersion >>

\* A resource with a distribution the cluster knows and no storage, just
\* created: the creation is the first request in the work queue.
InitLive ==
    /\ Init
    /\ ~spec.storage
    /\ ~resolveImage(spec.distribution).err

NextLive ==
    \/ \E fault \in Faults, in \in LiveStatusInputs : LivePass(fault, in)
    \/ \E n \in 0..MaxReplicas : UpdateSpec(n)
    \/ \E reply \in HealthReplies : EndpointChange(reply)
    \/ DeploymentProgress
    \/ DeleteDeployment

\* Passes run only for a request in the work queue, and a queued request
\* is served in the end.
SpecLive ==
    /\ InitLive
    /\ [][NextLive]_vars
    /\ WF_vars(\E fault \in Faults, in \in LiveStatusInputs : LivePass(fault, in))

\* ------------------------------------------------------------- claims

\* The Deployment as the status step of the pass that has just returned
\* read it: the step is atomic, so it is the Deployment of the store.
WorkloadFound == deployment.exists
ObservedReady == IF deployment.exists THEN deployment.readyReplicas ELSE 0
WorkloadIsReady ==
    /\ deployment.exists
    /\ deployment.readyReplicas = spec.replicas
    /\ spec.replicas > 0

\* A pass has just returned that found the instance, met no synchronization
\* error and could read the Deployment (found or not found).
EvaluatedPass == last.done /\ last.found /\ ~last.syncErr /\ last.depRead # "error"

\* C1: whenever reconcileResources returns an error, the status the pass
\* persists has phase Failed and the workload-ready condition false, whatever
\* the Deployment's readyReplicas and the server's health are.
C1_SyncErrorPersistsFailed ==
    (last.done /\ last.syncErr /\ last.persisted) =>
        /\ status.phase = PhaseFailed
        /\ status.deploymentReady = CondFalse

\* C1 witness: a failed synchronization persisted Failed although the
\* Deployment has every desired replica ready.
C1_Witness ==
    /\ last.done /\ last.syncErr /\ last.persisted
    /\ WorkloadIsReady
    /\ status.phase = PhaseFailed

\* C2: a pass persists phase Ready exactly when synchronization succeeded,
\* the Deployment was found with readyReplicas = replicas > 0 and the probe
\* answered 200; and a persisted Ready comes with workload-ready true,
\* health-ready true and availableReplicas = replicas.
C2_ReadyExactlyWhen ==
    (last.done /\ last.persisted) =>
        /\ status.phase = PhaseReady <=>
              /\ ~last.syncErr
              /\ last.depRead = "found"
              /\ WorkloadIsReady
              /\ last.health = "healthy"
        /\ status.phase = PhaseReady =>
              /\ status.deploymentReady = CondTrue
              /\ status.healthReady = CondTrue
              /\ status.availableReplicas = spec.replicas

\* C2 witness: the round trip of the spec: replicas 2, all ready, probe 200.
C2_Witness ==
    /\ last.done /\ last.persisted
    /\ spec.replicas = 2
    /\ status.phase = PhaseReady
    /\ status.availableReplicas = 2
    /\ last.health = "healthy"

\* C3: without a synchronization error the phase computed from the
\* Deployment is Pending when it is not found, and Initializing when
\* readyReplicas is 0, below replicas, or above replicas; in these cases the
\* workload-ready condition is false and the phase is never Ready.
C3_NotReadyPhases ==
    EvaluatedPass =>
        /\ ~WorkloadFound => last.phase = PhasePending
        /\ (WorkloadFound /\ ObservedReady = 0) => last.phase = PhaseInitializing
        /\ (WorkloadFound /\ 0 < ObservedReady /\ ObservedReady < spec.replicas)
              => last.phase = PhaseInitializing
        /\ (WorkloadFound /\ ObservedReady > spec.replicas)
              => last.phase = PhaseInitializing
        /\ (~WorkloadIsReady /\ last.persisted) =>
              /\ status.deploymentReady = CondFalse
              /\ status.phase = last.phase
              /\ status.phase # PhaseReady

\* C3 witness: an over-provisioned Deployment (more ready than desired, the
\* desired count positive) was classified Initializing.
C3_Witness ==
    /\ EvaluatedPass /\ last.persisted
    /\ WorkloadFound
    /\ spec.replicas > 0
    /\ ObservedReady > spec.replicas
    /\ status.phase = PhaseInitializing
    /\ status.deploymentReady = CondFalse

\* C4: with the workload ready, the probe decides: a transport error gives
\* Initializing and health-ready false, a non-200 answer Failed and
\* health-ready false, a 200 answer Ready and health-ready true.
C4_ProbeDecidesPhase ==
    (EvaluatedPass /\ WorkloadIsReady) =>
        /\ last.health \in HealthReplies
        /\ last.persisted =>
              /\ last.health = "error" =>
                    status.phase = PhaseInitializing /\ status.healthReady = CondFalse
              /\ last.health = "unhealthy" =>
                    status.phase = PhaseFailed /\ status.healthReady = CondFalse
              /\ last.health = "healthy" =>
                    status.phase = PhaseReady /\ status.healthReady = CondTrue

\* C4 witness: a ready workload whose probe failed in transport.
C4_Witness ==
    /\ EvaluatedPass /\ WorkloadIsReady /\ last.persisted
    /\ last.health = "error"
    /\ status.phase = PhaseInitializing
    /\ status.deploymentReady = CondTrue

\* A pass has just returned that found the instance and wrote its status.
PersistedPass == last.done /\ last.found /\ last.persisted

\* C5: in every pass that persists workload-ready false, passes whose
\* synchronization failed included, the probe and the provider listing are
\* not called and the persisted status has health-ready false (a condition
\* never set counts as not true) and no providers, whatever the previous
\* status held.
C5_NotReadyClearsHealth ==
    (PersistedPass /\ status.deploymentReady = CondFalse) =>
        /\ last.health = "notcalled"
        /\ last.providers = "notcalled"
        /\ status.healthReady # CondTrue
        /\ status.providers = NoProviders

\* C6: a persisted provider list is non-empty only if in that pass the
\* workload was ready and the probe answered 200.
C6_ProvidersOnlyWhenHealthy ==
    (PersistedPass /\ status.providers # NoProviders) =>
        /\ ~last.syncErr
        /\ WorkloadIsReady
        /\ last.health = "healthy"

\* C7 as claimed: every persisted status has availableReplicas equal to the
\* Deployment's readyReplicas in the store (0 if it does not exist), also
\* when Failed comes from a synchronization error.
C7_AvailableIsStoreValue ==
    PersistedPass => status.availableReplicas = ObservedReady

\* C7 amended: a pass whose synchronization succeeded persists the
\* readyReplicas it read (0 if not found), whatever phase it persists, Failed
\* after an unhealthy probe included; a pass whose synchronization failed
\* does not read the Deployment and persists the availableReplicas of the
\* status it fetched.
C7_AvailableIsLastObserved ==
    [][ (last'.done /\ last'.found /\ last'.persisted) =>
            IF last'.syncErr
            THEN status'.availableReplicas = status.availableReplicas
            ELSE status'.availableReplicas = ObservedReady' ]_vars

\* C7 witness: a pass whose probe answered non-200 persisted Failed with the
\* readyReplicas it read.
C7_Witness ==
    /\ PersistedPass /\ ~last.syncErr
    /\ last.health = "unhealthy"
    /\ status.phase = PhaseFailed
    /\ status.availableReplicas = 2
    /\ ObservedReady = 2

\* C8 as claimed: a pass asks for the 10s requeue iff the phase it computed
\* is Initializing.
C8_RequeueIffInitializing ==
    (last.done /\ last.found) =>
        (last.result.requeueAfter = RequeueDelay <=> last.phase = PhaseInitializing)

\* C8 amended: a pass asks for the 10s requeue iff it returns no error
\* (neither a synchronization error nor a status update error) and the phase
\* it computed is Initializing; every other pass asks for no delay.
C8_RequeueIffInitializingAndNoError ==
    last.done =>
        /\ last.result.requeueAfter \in {0, RequeueDelay}
        /\ last.result.requeueAfter = RequeueDelay <=>
              /\ last.found
              /\ last.result.err = "none"
              /\ ~last.syncErr
              /\ ~last.statusErr
              /\ last.phase = PhaseInitializing

\* C8 witness: a pass that computed Initializing, wrote it and asked for
\* the requeue.
C8_Witness ==
    /\ PersistedPass
    /\ last.phase = PhaseInitializing
    /\ status.phase = PhaseInitializing
    /\ last.result = [err |-> "none", requeueAfter |-> RequeueDelay]

C10_ErrorPrecedence ==
    (last.done /\ last.found) =>
        last.result.err =
            IF last.syncErr THEN "reconcile"
            ELSE IF last.statusErr THEN "status"
            ELSE "none"

\* C10 witness: synchronization and the status write both failed, and the
\* synchronization error was returned.
C10_Witness ==
    /\ last.done /\ last.found
    /\ last.syncErr
    /\ last.statusErr
    /\ last.writes = 1
    /\ last.result.err = "reconcile"

\* C11: a pass that finds the resource absent returns success and asks for
\* no requeue, attempts no status write, and leaves the resource, its status
\* and the four children as they were.
C11_AbsentIsSilentSuccess ==
    [][ (last'.done /\ last'.fetch = "notfound") =>
            /\ ~crExists
            /\ last'.result = [err |-> "none", requeueAfter |-> 0]
            /\ last'.writes = 0
            /\ ~last'.persisted
            /\ UNCHANGED << crExists, spec, status, pvc, networkPolicy,
                            deployment, service >> ]_vars

\* C11 witness: the resource was deleted with children in the store, and a
\* pass for it returned success.
C11_Witness ==
    /\ last.done /\ last.fetch = "notfound"
    /\ ~crExists
    /\ deployment.exists /\ pvc.phase = "Bound"
    /\ last.result = [err |-> "none", requeueAfter |-> 0]

\* C12 as claimed: for a resource whose distribution reference does not
\* resolve, created with no child in the store, every pass that persists
\* persists Failed and no child of any kind is ever created, whatever the
\* spec and the feature flag.
C12_UnresolvableCreatesNothing ==
    resolveImage(spec.distribution).err =>
        /\ PersistedPass => status.phase = PhaseFailed
        /\ pvc.phase = "absent"
        /\ ~networkPolicy
        /\ ~deployment.exists
        /\ ~service

SyncRepeatable ==
    /\ last.sync.ran
    /\ \/ last.sync.err = "none"
       \/ last.sync.err = "dep" /\ resolveImage(spec.distribution).err

\* C14: a run of reconcileResources that directly follows such a run, the
\* spec and the flag unchanged and no other actor in between, issues no
\* create, update or delete and leaves the four children as the first run
\* left them.
C14_SecondRunWritesNothing ==
    [][ (SyncRepeatable /\ last'.sync.ran) =>
            (last'.sync.ops = NoOps /\ kids' = kids) ]_vars

\* C14 witness: a second run, directly after a run that created the claim,
\* the policy, the Deployment and the Service, wrote nothing.
C14_Witness ==
    /\ last.sync.ran /\ last.sync.err = "none"
    /\ last.sync.steps = << "pvc", "np", "dep", "svc" >>
    /\ last.sync.ops = NoOps
    /\ pvc.phase = "Pending" /\ networkPolicy /\ deployment.exists /\ service

\* The run of reconcileResources recorded in r got past its NetworkPolicy
\* step.
PolicyStepSucceeded(r) == r.ran /\ r.err \in {"none", "dep", "svc"}

\* C15: a pass whose NetworkPolicy step succeeds leaves no policy when the
\* flag is disabled (it deleted the one there was, and wrote nothing when
\* there was none) and leaves the policy in place when the flag is enabled
\* (it created it if there was none).
C15_PolicyFollowsFlag ==
    [][ PolicyStepSucceeded(last'.sync) =>
            /\ networkPolicy' = EnableNetworkPolicy
            /\ last'.sync.ops.networkPolicy =
                   IF EnableNetworkPolicy
                   THEN (IF networkPolicy THEN "none" ELSE "create")
                   ELSE (IF networkPolicy THEN "delete" ELSE "none") ]_vars

\* C15 witness: the flag is disabled and a pass has deleted the policy an
\* earlier pass created; its later steps succeeded too.
C15_Witness ==
    /\ ~EnableNetworkPolicy
    /\ ~networkPolicy
    /\ last.done /\ last.sync.err = "none"
    /\ last.sync.ops.networkPolicy = "delete"

\* C15 witness, second case: the flag is disabled, there was no policy, and
\* the step succeeded without a write.
C15_WitnessAbsent ==
    /\ ~EnableNetworkPolicy
    /\ ~networkPolicy
    /\ last.done /\ PolicyStepSucceeded(last.sync)
    /\ last.sync.ops.networkPolicy = "none"

\* C16 as claimed: whatever the interleaving of the passes, none holds an
\* error that comes from another pass having created the same child first,
\* and none persists Failed for that reason.
C16_NoErrorFromLostRace ==
    \A p \in Passes :
        /\ passes[p].err # "AlreadyExists"
        /\ ~(passes[p].persisted /\ passes[p].phase = PhaseFailed
               /\ passes[p].err = "AlreadyExists")

\* The name the child of a kind carries.
ChildName(kind) ==
    CASE kind = "pvc" -> PVCName(InstanceName)
      [] kind = "np" -> NetworkPolicyName(InstanceName)
      [] kind = "dep" -> DeploymentName(InstanceName)
      [] kind = "svc" -> ServiceName(InstanceName)

\* C17: in every reachable store, whatever the interleaving of the passes,
\* there is at most one claim, one policy, one Deployment and one Service
\* of the resource, each under the name derived from the resource's name.
C17_AtMostOneChildPerKind ==
    \A kind \in Kinds :
        LET os == {o \in objects : o.kind = kind}
        IN  /\ Cardinality(os) <= 1
            /\ \A o \in os : o.name = ChildName(kind)

\* C17 witness: all four children exist, every pass has run to its end, and
\* one of them lost the race for the claim.
C17_Witness ==
    /\ Cardinality(objects) = 4
    /\ \A p \in Passes : passes[p].at = "idle" /\ passes[p].persisted
    /\ \E p \in Passes : passes[p].err = "AlreadyExists"

\* The steps a run of reconcileResources has to take for the spec, in order.
StepsFor(sp) ==
    (IF sp.storage THEN << "pvc" >> ELSE << >>)
    \o << "np", "dep" >>
    \o (IF HasPorts(sp) THEN << "svc" >> ELSE << >>)

Ran(s, step) == \E i \in 1..Len(s.steps) : s.steps[i] = step

\* C18: the steps of a run are an initial part of claim (if storage),
\* policy, Deployment, Service (if ports); a run without error takes them
\* all; a run with an error ends with the step that failed, returns the
\* error to Reconcile, and a step it did not take issued no write and left
\* its child as it was: no Deployment write after a failed policy step, no
\* Service write after a failed Deployment step.
C18_StepsInOrderUntilError ==
    [][ last'.sync.ran =>
          LET s == last'.sync
              all == StepsFor(spec)
          IN  /\ Len(s.steps) <= Len(all)
              /\ s.steps = SubSeq(all, 1, Len(s.steps))
              /\ s.err = "none" => s.steps = all
              /\ s.err # "none" =>
                     /\ s.steps # << >>
                     /\ s.steps[Len(s.steps)] = s.err
                     /\ last'.syncErr
                     /\ last'.result.err = "reconcile"
              /\ ~Ran(s, "pvc") => (s.ops.pvc = "none" /\ pvc' = pvc)
              /\ ~Ran(s, "np") =>
                     (s.ops.networkPolicy = "none"
                      /\ networkPolicy' = networkPolicy)
              /\ ~Ran(s, "dep") =>
                     (s.ops.deployment = "none" /\ deployment' = deployment)
              /\ ~Ran(s, "svc") => (s.ops.service = "none" /\ service' = service)
              /\ s.err = "np" => ~Ran(s, "dep")
              /\ s.err = "dep" => ~Ran(s, "svc") ]_vars

\* C18 witness: a pass created the claim, failed at the policy step, and
\* left the Deployment and the Service, both wanted, uncreated.
C18_Witness ==
    /\ last.done /\ last.sync.ran
    /\ last.sync.err = "np"
    /\ last.sync.steps = << "pvc", "np" >>
    /\ last.sync.ops.pvc = "create"
    /\ HasPorts(spec)
    /\ ~deployment.exists /\ ~service
    /\ last.result.err = "reconcile"

\* The phase that follows from what a pass observed: its synchronization
\* outcome, whether it found the Deployment, the readyReplicas it read, the
\* replicas the spec asks for, the probe's answer.
ObservedPhase(syncErr, found, ready, replicas, health) ==
    IF syncErr THEN PhaseFailed
    ELSE IF ~found THEN PhasePending
    ELSE IF ready = 0 \/ ready # replicas THEN PhaseInitializing
    ELSE IF health = "healthy" THEN PhaseReady
    ELSE IF health = "unhealthy" THEN PhaseFailed
    ELSE PhaseInitializing

AllPhases == {"", PhasePending, PhaseInitializing, PhaseReady, PhaseFailed}

\* The calls of updateStatus that can come next in the state, as
\* << reconcileErr, what the call meets >>: with nil after reconcileResources
\* returned nil, with an error in a pass whose reconcileResources fails.
StatusCalls ==
    IF pc = "status" THEN {<< "none", in >> : in \in StatusInputs}
    ELSE IF crExists THEN {<< "dep", FailedSyncInput(w) >> : w \in BOOLEAN}
    ELSE {}

\* Whether the call c of updateStatus, with st as the fetched status, gets
\* its write through, and the phase it writes then.
PhaseWritten(st, c) ==
    LET u == updateStatus(st, spec, c[1], kids, c[2])
    IN  << u.persisted, IF u.persisted THEN u.mem.phase ELSE "" >>

\* C19: the phase a pass persists is the one that follows from what the
\* pass observed, whatever status it fetched; and updateStatus, given the
\* fetched status with any other phase in it, computes the same phase and
\* makes the same write.
C19_PhaseFromObservationsOnly ==
    /\ PersistedPass =>
           status.phase = ObservedPhase(last.syncErr, last.depRead = "found",
                                        ObservedReady, spec.replicas, last.health)
    /\ \A c \in StatusCalls :
           Cardinality({ PhaseWritten([status EXCEPT !.phase = ph], c) :
                           ph \in AllPhases \cup {status.phase} }) = 1

\* C19 witness: the fetched status was that of a Ready pass (its health
\* condition is still in place), the synchronization failed, and the pass
\* persisted Failed.
C19_Witness ==
    /\ PersistedPass /\ last.syncErr
    /\ status.phase = PhaseFailed
    /\ status.healthReady = CondTrue
    /\ status.providers = SomeProviders

\* The states the claim can be read in, and whether the Service is.
PVCObservations ==
    { NoPVC, desiredPVC(spec), [desiredPVC(spec) EXCEPT !.phase = "Bound"] }

\* What the call c of updateStatus, reading the children k, decides aside
\* from the storage and service conditions: whether its write gets through,
\* the phase, the workload-ready and health-ready conditions, and what
\* Reconcile returns.
AsideFromStorageAndService(c, k) ==
    LET u == updateStatus(status, spec, c[1], k, c[2])
    IN  << u.persisted, u.mem.phase, u.mem.deploymentReady, u.mem.healthReady,
           ReconcileResult(c[1], u.err, u.mem.phase) >>

\* C20: updateStatus, given the same fetched status, spec, reconcileErr,
\* Deployment and replies but any other state of the claim and of the
\* Service, makes the same write with the same phase, the same
\* workload-ready and health-ready conditions, and Reconcile returns the
\* same error and requeue.
C20_StorageAndServiceAsideFromPhase ==
    \A c \in StatusCalls :
        Cardinality({ AsideFromStorageAndService(
                          c, [kids EXCEPT !.pvc = p, !.service = svc]) :
                        p \in PVCObservations \cup {pvc}, svc \in BOOLEAN }) = 1

\* C20 witness: a pass persisted Ready with the claim still unbound: the
\* storage condition is false, the workload and health conditions true.
C20_Witness ==
    /\ PersistedPass
    /\ spec.storage /\ pvc.phase = "Pending"
    /\ status.storageReady = CondFalse
    /\ status.phase = PhaseReady
    /\ status.deploymentReady = CondTrue
    /\ status.healthReady = CondTrue
    /\ last.result.requeueAfter = 0

\* The pass p returns in this step, from its status step.
RaceReturns(p) == passes[p].at = "status" /\ passes'[p].at = "idle"

\* C21: with passes interleaved on a store that refuses a write based on a
\* stale read, the status write of a pass that read an older version of the
\* resource than the store holds fails and the pass returns an error, not
\* success; and the persisted status changes only by the write of a pass
\* that read the version the store holds, so no pass overwrites it with a
\* status computed from a stale read.
C21_StaleStatusWriteRejected ==
    [][ /\ \A p \in Passes :
              RaceReturns(p) /\ passes[p].version # resourceVersion
                  => /\ ~passes'[p].persisted
                     /\ passes'[p].result.err # "none"
                     /\ status' = status
                     /\ resourceVersion' = resourceVersion
        /\ (status' # status \/ resourceVersion' # resourceVersion)
              => \E p \in Passes :
                    /\ RaceReturns(p)
                    /\ passes[p].version = resourceVersion
                    /\ passes[p].inst = status
                    /\ passes'[p].persisted ]_vars

\* A pass has returned the error of its refused status write: it read the
\* resource before another pass persisted phase Failed, and the phase it
\* computed, Initializing, is not in the store.
C21_Witness ==
    \E p, q \in Passes :
        /\ p # q
        /\ passes[p].done /\ passes[p].stale /\ ~passes[p].persisted
        /\ passes[p].result.err = "status"
        /\ passes[q].done /\ passes[q].persisted
        /\ passes[q].version >= passes[p].version
        /\ passes[p].phase = PhaseInitializing
        /\ status.phase = PhaseFailed

\* Synchronization and status writes succeed, the workload is at
\* readyReplicas == desired > 0 and the health endpoint answers 200.
Steady ==
    /\ crExists
    /\ WorkloadIsReady
    /\ endpoint = "healthy"
    /\ last.done => ~last.syncErr /\ ~last.statusErr

\* The last pass probed a ready workload, got a non-200 answer and persisted
\* phase Failed; it returned success and asked for no re-invocation, and
\* nothing the controller watches has changed since.
FailedByProbeAtRest ==
    /\ last.done
    /\ last.health = "unhealthy"
    /\ last.persisted
    /\ status.phase = PhaseFailed
    /\ ~Triggered

\* C22: with passes started only by creation, spec change, change of an
\* owned child, the pass's own request to run again after 10s and the retry
\* after an error return, and every queued request served in the end: if
\* from some point on synchronization and status writes succeed, the
\* workload stays at readyReplicas == desired > 0 and the health endpoint
\* answers 200, the persisted phase becomes Ready after that point.
C22_EventuallyReady ==
    <>[]Steady => []<>(status.phase = PhaseReady)

\* The same, except where the controller rests at a phase Failed persisted
\* after a non-200 probe.
C22_ReadyUnlessFailedByProbe ==
    <>[]Steady => []<>(status.phase = PhaseReady \/ FailedByProbeAtRest)

\* C23: for a resource that asks for 0 replicas, no pass persists phase
\* Ready or workload-ready true; every pass that meets no error and finds
\* the Deployment persists phase Initializing and workload-ready false,
\* whether readyReplicas is 0 or still above 0 (scaling down), calls neither
\* endpoint, and returns success with a request to be run again after
\* RequeueDelay, so that every such pass is followed by another.
C23_ZeroReplicasNeverReady ==
    (last.done /\ last.found /\ spec.replicas = 0) =>
        /\ last.persisted =>
              /\ status.phase # PhaseReady
              /\ status.deploymentReady # CondTrue
        /\ (~last.syncErr /\ ~last.statusErr /\ last.depRead = "found") =>
              /\ last.persisted
              /\ status.phase = PhaseInitializing
              /\ status.deploymentReady = CondFalse
              /\ ~last.deploymentReady
              /\ last.health = "notcalled"
              /\ last.providers = "notcalled"
              /\ last.result = [err |-> "none", requeueAfter |-> RequeueDelay]

\* C23 witness: the resource was scaled to 0 while a replica was ready; the
\* pass found the Deployment with readyReplicas above 0, persisted
\* Initializing without a probe and asked to be run again.
C23_Witness ==
    /\ last.done /\ last.found /\ spec.replicas = 0
    /\ ~last.syncErr /\ ~last.statusErr /\ last.depRead = "found"
    /\ deployment.exists /\ deployment.readyReplicas > 0
    /\ last.persisted
    /\ status.phase = PhaseInitializing
    /\ status.availableReplicas > 0
    /\ last.health = "notcalled"
    /\ last.result.requeueAfter = RequeueDelay

\* A pass for a resource that asks for 0 replicas found the Deployment with
\* readyReplicas 0, persisted Initializing and asked to be run again.
C23_WitnessZeroReady ==
    /\ last.done /\ last.found /\ spec.replicas = 0
    /\ ~last.syncErr /\ ~last.statusErr /\ last.depRead = "found"
    /\ deployment.exists /\ deployment.readyReplicas = 0
    /\ last.persisted
    /\ status.phase = PhaseInitializing
    /\ last.result.requeueAfter = RequeueDelay

====
